---------------------------- MODULE Spec2Model ----------------------------
(***************************************************************************)
(* Model of app/database.py: the CRUD mixin (ModelCRUD), the base entity   *)
(* (BaseModel), the timestamped entity (TableModel) and the association    *)
(* entity (AssociationModel), over the shared session db.session.          *)
(*                                                                         *)
(* The concrete entity is the association                                  *)
(*   Enrollment(student_id, course_id, grade)                              *)
(* whose foreign keys are declared with new_fk() (nullable=False) and      *)
(* whose grade column is nullable.  It inherits id, created_at and         *)
(* updated_at from TableModel.                                             *)
(*                                                                         *)
(* The session is modelled as a unit of work: objects added but not yet    *)
(* inserted (new), attribute assignments not yet written (dirty), objects  *)
(* marked for deletion (deleted), the rows as written inside the open      *)
(* transaction (tx) and the committed rows (db).  A flush writes new,      *)
(* dirty and deleted into tx; a commit flushes and makes tx durable.       *)
(***************************************************************************)
EXTENDS Integers, Sequences, FiniteSets, TLC

(***************************************************************************)
(* Bounds of the model.                                                    *)
(***************************************************************************)
MaxId == 2
MaxClock == 2
MaxPending == 1
MaxStudent == 2
MaxCourse == 1

StudentIds == 1..MaxStudent
CourseIds == 1..MaxCourse
Grades == {"A", "B"}
NULL == "NULL"
Procs == {"p1", "p2"}

VARIABLES
    db,       \* committed rows: id -> row
    tx,       \* rows as written in the open transaction: id -> row
    new,      \* session.new: sequence of field maps awaiting INSERT
    dirty,    \* attribute assignments awaiting UPDATE: id -> field map
    deleted,  \* session.deleted: ids awaiting DELETE
    now,      \* the instant datetime.utcnow() returns
    last,     \* the last call: operation, arguments, outcome
    pc        \* position of each concurrent create_or_update caller

vars == <<db, tx, new, dirty, deleted, now, last, pc>>

(***************************************************************************)
(* Columns and field maps (the **kwargs of create / update).               *)
(***************************************************************************)
FkNames == {"student_id", "course_id"}
Cols == {"student_id", "course_id", "grade", "created_at", "updated_at"}

Restrict(f, S) == [k \in S |-> f[k]]

\* The timestamp a caller passes explicitly is 0, earlier than every clock
\* reading (the clock starts at 1).
FullMaps ==
    { [k \in Cols |->
         CASE k = "student_id" -> s
           [] k = "course_id"  -> c
           [] k = "grade"      -> g
           [] k = "created_at" -> 0
           [] k = "updated_at" -> 0] :
      s \in StudentIds, c \in CourseIds, g \in Grades }

\* Every partial assignment of columns: what a caller can pass as **kwargs.
FieldMaps == { Restrict(f, S) : f \in FullMaps, S \in SUBSET Cols }

\* kwargs that carry every NOT NULL column (valid input of create).
CreateMaps == { f \in FieldMaps : FkNames \subseteq DOMAIN f }

EmptyMap == Restrict(CHOOSE f \in FullMaps : TRUE, {})

\* setattr of every key of g over f.
Override(f, g) ==
    [k \in DOMAIN f \cup DOMAIN g |-> IF k \in DOMAIN g THEN g[k] ELSE f[k]]

(***************************************************************************)
(* The values a caller may pass as id, and Python's view of them.          *)
(* An id value is [k, n, s]: k the Python type, n the number (tenths for a *)
(* finite float), s the characters of a string.                            *)
(***************************************************************************)
DecimalChars == {"0", "1", "2", "3"}
\* "sup2" is U+00B2 SUPERSCRIPT TWO: str.isdigit() is true of it, int() rejects it.
DigitChars == DecimalChars \cup {"sup2"}

IntId(n) == [k |-> "int", n |-> n, s |-> << >>]
FloatId(tenths) == [k |-> "float", n |-> tenths, s |-> << >>]
StrId(s) == [k |-> "str", n |-> 0, s |-> s]
NanId == [k |-> "nan", n |-> 0, s |-> << >>]
InfId == [k |-> "inf", n |-> 0, s |-> << >>]
NegInfId == [k |-> "ninf", n |-> 0, s |-> << >>]
NoneId == [k |-> "none", n |-> 0, s |-> << >>]
ListId == [k |-> "list", n |-> 0, s |-> << >>]

\* 1.5, -1.5, "", "1", "01", "-1", "a", U+00B2, nan, -inf, None, [] and the
\* integers from -1 on.
IdInputs ==
    { IntId(n) : n \in -1..MaxId }
    \cup { FloatId(t) : t \in {-15, 15} }
    \cup { StrId(s) : s \in { << >>, <<"1">>, <<"0", "1">>, <<"-", "1">>,
                              <<"a">>, <<"sup2">> } }
    \cup { NanId, NegInfId, NoneId, ListId }

\* isinstance(id, str)
IsStr(x) == x.k = "str"
\* isinstance(id, (int, float))
IsIntOrFloat(x) == x.k \in {"int", "float", "nan", "inf", "ninf"}
\* str.isdigit(): non-empty and every character a digit
IsDigit(s) == Len(s) > 0 /\ \A i \in 1..Len(s) : s[i] \in DigitChars

DigitVal(c) ==
    CASE c = "0" -> 0 [] c = "1" -> 1 [] c = "2" -> 2 [] c = "3" -> 3

RECURSIVE DecVal(_)
DecVal(s) ==
    IF s = << >> THEN 0
    ELSE DecVal(SubSeq(s, 1, Len(s) - 1)) * 10 + DigitVal(s[Len(s)])

\* int(id): [exc, n]
ToInt(x) ==
    CASE x.k = "int" -> [exc |-> "none", n |-> x.n]
      [] x.k = "float" ->
           [exc |-> "none",
            n |-> IF x.n >= 0 THEN x.n \div 10 ELSE -((-x.n) \div 10)]
      [] x.k = "nan" -> [exc |-> "ValueError", n |-> 0]
      [] x.k \in {"inf", "ninf"} -> [exc |-> "OverflowError", n |-> 0]
      [] x.k = "str" ->
           IF \A i \in 1..Len(x.s) : x.s[i] \in DecimalChars
           THEN [exc |-> "none", n |-> DecVal(x.s)]
           ELSE [exc |-> "ValueError", n |-> 0]
      [] OTHER -> [exc |-> "TypeError", n |-> 0]


(***************************************************************************)
(* The session (db.session) as a unit of work over one table.              *)
(* A session state is [db, tx, new, dirty, deleted, now].                  *)
(***************************************************************************)
NoRows == [k \in {} |-> 0]

Cur == [db |-> db, tx |-> tx, new |-> new, dirty |-> dirty,
        deleted |-> deleted, now |-> now]

MaxKey(S) == IF S = {} THEN 0 ELSE CHOOSE m \in S : \A k \in S : k <= m

Put(t, id, row) == [k \in DOMAIN t \cup {id} |-> IF k = id THEN row ELSE t[k]]

\* The row an INSERT writes for the kwargs f: created_at takes its default
\* (utcnow read at t1) and updated_at its default (utcnow read at t2) unless
\* the caller supplied them; grade is NULL when not supplied.
InsertedRowStamped(f, t1, t2) ==
    [k \in Cols |->
        CASE k = "created_at" -> t1
          [] k = "updated_at" -> t2
          [] OTHER -> IF k \in DOMAIN f THEN f[k] ELSE NULL]
InsertedRow(f, t1, t2) ==
    [k \in Cols |->
        IF k \in DOMAIN f THEN f[k]
        ELSE CASE k = "created_at" -> t1
               [] k = "updated_at" -> t2
               [] OTHER -> NULL]

\* The storage engine assigns the id: SQLite's INTEGER PRIMARY KEY takes the
\* largest id of the table plus one.
NextId(t) == MaxKey(DOMAIN t) + 1

RECURSIVE InsertAll(_, _, _, _)
InsertAll(t, pend, t1, t2) ==
    IF pend = << >> THEN t
    ELSE InsertAll(Put(t, NextId(t), InsertedRow(Head(pend), t1, t2)),
                   Tail(pend), t1, t2)

\* The row an UPDATE leaves: no statement when no column has a net change;
\* otherwise the assigned columns, and updated_at takes onupdate (utcnow read
\* at t2) unless the assignment itself changed updated_at.
UpdatedRowRestamped(row, f, t2) ==
    LET r == Override(row, f) IN
    IF r = row THEN row
    ELSE [r EXCEPT !["created_at"] = t2, !["updated_at"] = t2]
UpdatedRowUnstamped(row, f, t2) == Override(row, f)
UpdatedRow(row, f, t2) ==
    LET r == Override(row, f) IN
    IF r = row THEN row
    ELSE IF r["updated_at"] = row["updated_at"]
         THEN [r EXCEPT !["updated_at"] = t2]
         ELSE r

\* The instants one flush may read: t1 for the created_at default, then t2
\* for the updated_at default of the same INSERT (two calls of utcnow, between
\* which the clock may advance).
Instants(s) ==
    IF s.new = << >> \/ s.now = MaxClock THEN { <<s.now, s.now>> }
    ELSE { <<s.now, s.now>>, <<s.now, s.now + 1>> }

\* session.flush(): INSERT what is new, UPDATE what is dirty, DELETE what is
\* marked deleted.
Flush(s, t) ==
    LET t1 == t[1]
        t2 == t[2]
        ins == InsertAll(s.tx, s.new, t1, t2)
        upd == [id \in DOMAIN ins |->
                  IF id \in DOMAIN s.dirty
                  THEN UpdatedRow(ins[id], s.dirty[id], t2)
                  ELSE ins[id]]
        del == Restrict(upd, DOMAIN upd \ s.deleted)
    IN [s EXCEPT !.tx = del, !.new = << >>, !.dirty = NoRows,
                 !.deleted = {}, !.now = t2]

\* Flush when something is pending (autoflush before a query).
AutoFlush(s, t) ==
    IF s.new = << >> /\ s.dirty = NoRows /\ s.deleted = {}
    THEN s ELSE Flush(s, t)

\* The record as the session shows it: the written row with the attribute
\* assignments still pending on the instance.
Instance(s, id) ==
    IF id \in DOMAIN s.dirty THEN Override(s.tx[id], s.dirty[id]) ELSE s.tx[id]

(***************************************************************************)
(* ModelCRUD: operations on session states.                                *)
(***************************************************************************)
\* ModelCRUD.commit: db.session.commit() flushes and ends the transaction.
CommitS(s, t) ==
    LET f == Flush(s, t) IN [f EXCEPT !.db = f.tx]

\* The tail of save / delete: "if commit: self.commit()".
IfCommitAlways(s, commit, t) == CommitS(s, t)
IfCommit(s, commit, t) == IF commit THEN CommitS(s, t) ELSE s

\* db.session.add(self) of a new object.
Added(s, f) == [s EXCEPT !.new = Append(@, f)]

\* db.session.add(self) of a persistent instance: it is taken back into the
\* session, and a pending deletion mark is dropped.
Readded(s, id) == [s EXCEPT !.deleted = @ \ {id}]

\* db.session.delete(self).
MarkedNot(s, id) == s
Marked(s, id) == [s EXCEPT !.deleted = @ \cup {id}]

\* ModelCRUD.update, the loop: setattr(self, attr, val) for every kwarg.
SetAttrs(s, id, f) ==
    IF f = EmptyMap THEN s
    ELSE [s EXCEPT !.dirty =
            Put(@, id, IF id \in DOMAIN @ THEN Override(@[id], f) ELSE f)]

\* ModelCRUD.update before its commit: "if commit: return self.save()" adds
\* the instance to the session; "return self" does not.
Updated(s, id, f, commit) ==
    IF commit THEN Readded(SetAttrs(s, id, f), id) ELSE SetAttrs(s, id, f)

\* The id the instance create returns carries: assigned by the INSERT, None (0)
\* while the INSERT is pending.
CreatedId(s, commit) ==
    IF commit THEN MaxKey(DOMAIN s.tx) + Len(s.new) + 1 ELSE 0

(***************************************************************************)
(* BaseModel.get_by_id.                                                    *)
(***************************************************************************)
\* The guard and the conversion of get_by_id: [exc, get, key], get telling
\* whether db.session.get is reached and key the id handed to it.
IdKey(x) ==
    IF (IsStr(x) /\ IsDigit(x.s)) \/ IsIntOrFloat(x)
    THEN LET c == ToInt(x) IN
         IF c.exc = "none" THEN [exc |-> "none", get |-> TRUE, key |-> c.n]
         ELSE [exc |-> c.exc, get |-> FALSE, key |-> 0]
    ELSE [exc |-> "none", get |-> FALSE, key |-> 0]

\* db.session.get(cls, key) returns an instance found in the identity map
\* without a query; otherwise it queries, which flushes first.  An instance
\* the session holds strongly (modified or marked deleted) is always in the
\* identity map; another one is there while the caller still holds it.
Hits(s, x) ==
    LET g == IdKey(x) IN
    IF ~g.get THEN {TRUE}
    ELSE IF g.key \in DOMAIN s.dirty \/ g.key \in s.deleted THEN {TRUE}
    ELSE IF g.key \in DOMAIN s.tx THEN {TRUE, FALSE}
    ELSE {FALSE}

\* The session after get_by_id(x).
GetByIdS(s, x, hit, t) == IF hit THEN s ELSE AutoFlush(s, t)

\* What get_by_id(x) gives on the session s1 it leaves: the exception raised
\* ("none" for a normal return) and the id of the record returned (0: None).
GetByIdOut(s1, x) ==
    LET g == IdKey(x) IN
    [exc |-> g.exc,
     id  |-> IF g.get /\ g.key \in DOMAIN s1.tx THEN g.key ELSE 0]

(***************************************************************************)
(* BaseModel.get_first and AssociationModel.create_or_update.              *)
(***************************************************************************)
\* The rows select(**kwargs) matches: filter_by of every kwarg.
Matches(t, kw) == { id \in DOMAIN t : \A k \in DOMAIN kw : t[id][k] = kw[k] }

\* fk_dict = {k: kwargs[k] for k in cls.fk_names} raises KeyError when a
\* foreign key is missing from kwargs.
FkKeyErrorNever(f) == FALSE
FkKeyError(f) == ~(FkNames \subseteq DOMAIN f)
FkDict(f) == Restrict(f, FkNames \cap DOMAIN f)

\* get_first(**fk_dict) on the flushed session s1: scalar() gives the first
\* matching row, 0 (None) when there is none.  The select has no ORDER BY:
\* any matching row may come first.
FirstOfNone(s1, kw) == {0}
FirstOf(s1, kw) == IF Matches(s1.tx, kw) = {} THEN {0} ELSE Matches(s1.tx, kw)

\* The branch of create_or_update after the lookup returned rec, before its
\* commit: record.update(**kwargs) or cls.create(**kwargs).
UpsertedRechecked(s1, f, rec) ==
    LET m == Matches(s1.tx, FkDict(f)) IN
    IF m # {} THEN Updated(s1, CHOOSE id \in m : TRUE, f, TRUE) ELSE Added(s1, f)
Upserted(s1, f, rec) ==
    IF rec # 0 THEN Updated(s1, rec, f, TRUE) ELSE Added(s1, f)

UpsertOut(s1, rec) == IF rec # 0 THEN rec ELSE CreatedId(s1, TRUE)

(***************************************************************************)
(* State machine.                                                          *)
(***************************************************************************)
Idle == [st |-> "idle", f |-> EmptyMap, rec |-> 0]

NoCall == [op |-> "init", exc |-> "none", out |-> 0]

Init ==
    /\ db = NoRows
    /\ tx = NoRows
    /\ new = << >>
    /\ dirty = NoRows
    /\ deleted = {}
    /\ now = 1
    /\ last = NoCall
    /\ pc = [p \in Procs |-> Idle]

\* The session becomes s1 and the call is recorded.
Becomes(s1, call) ==
    /\ db' = s1.db
    /\ tx' = s1.tx
    /\ new' = s1.new
    /\ dirty' = s1.dirty
    /\ deleted' = s1.deleted
    /\ now' = s1.now
    /\ last' = call

\* Room for one more INSERT within the bound on ids.
Room(s) == MaxKey(DOMAIN s.tx) + Len(s.new) < MaxId

\* Changes the open transaction holds uncommitted: those pending in the
\* session, and one if something flushed awaits the commit.  A call with
\* commit=False is taken while there is room for one more within the bound.
Pending(s) ==
    Len(s.new) + Cardinality(DOMAIN s.dirty \cup s.deleted)
    + (IF s.tx = s.db THEN 0 ELSE 1)
MayDefer(s, commit) == commit \/ Pending(s) < MaxPending

\* The instants the commit of s1 may read, when there is a commit.
CommitInstants(s1, commit) ==
    IF commit THEN Instants(s1) ELSE { <<s1.now, s1.now>> }

\* Time passes.
Tick ==
    /\ now < MaxClock
    /\ now' = now + 1
    /\ UNCHANGED <<db, tx, new, dirty, deleted, last, pc>>

\* ModelCRUD.create
Create(f, commit) ==
    /\ Room(Cur)
    /\ MayDefer(Cur, commit)
    /\ LET s1 == Added(Cur, f) IN
       \E t \in CommitInstants(s1, commit) :
         Becomes(IfCommit(s1, commit, t),
                 [NoCall EXCEPT !.op = "create",
                                !.out = CreatedId(Cur, commit)])
    /\ UNCHANGED pc

\* ModelCRUD.save, on a persistent instance
Save(id, commit) ==
    /\ LET s1 == Readded(Cur, id) IN
       \E t \in CommitInstants(s1, commit) :
         Becomes(IfCommit(s1, commit, t),
                 [NoCall EXCEPT !.op = "save", !.out = id])
    /\ UNCHANGED pc

\* ModelCRUD.update
Update(id, f, commit) ==
    /\ MayDefer(Cur, commit)
    /\ LET s1 == Updated(Cur, id, f, commit) IN
       \E t \in CommitInstants(s1, commit) :
         Becomes(IfCommit(s1, commit, t),
                 [NoCall EXCEPT !.op = "update", !.out = id])
    /\ UNCHANGED pc

\* ModelCRUD.delete
Delete(id, commit) ==
    /\ MayDefer(Cur, commit)
    /\ LET s1 == Marked(Cur, id) IN
       \E t \in CommitInstants(s1, commit) :
         Becomes(IfCommit(s1, commit, t),
                 [NoCall EXCEPT !.op = "delete"])
    /\ UNCHANGED pc

\* ModelCRUD.commit
Commit ==
    /\ \E t \in Instants(Cur) :
         Becomes(CommitS(Cur, t), [NoCall EXCEPT !.op = "commit"])
    /\ UNCHANGED pc

\* BaseModel.get_by_id
GetById(x) ==
    /\ \E hit \in Hits(Cur, x), t \in Instants(Cur) :
         LET s1 == GetByIdS(Cur, x, hit, t)
             r == GetByIdOut(s1, x)
         IN Becomes(s1, [NoCall EXCEPT !.op = "get_by_id",
                                       !.exc = r.exc, !.out = r.id])
    /\ UNCHANGED pc

\* BaseModel.update_by_id: cls.get_by_id(id).update(commit=commit, **kwargs);
\* the attribute access on None raises AttributeError.
UpdateById(x, f, commit) ==
    /\ MayDefer(Cur, commit)
    /\ \E hit \in Hits(Cur, x), t \in Instants(Cur) :
         LET s1 == GetByIdS(Cur, x, hit, t)
             r == GetByIdOut(s1, x)
             call == [NoCall EXCEPT !.op = "update_by_id"]
         IN IF r.exc # "none" THEN Becomes(s1, [call EXCEPT !.exc = r.exc])
            ELSE IF r.id = 0
            THEN Becomes(s1, [call EXCEPT !.exc = "AttributeError"])
            ELSE LET s2 == Updated(s1, r.id, f, commit) IN
                 \E u \in CommitInstants(s2, commit) :
                    Becomes(IfCommit(s2, commit, u), call)
    /\ UNCHANGED pc

\* BaseModel.delete_by_id: cls.get_by_id(id).delete(commit=commit, **kwargs);
\* delete takes no keyword but commit, so any further kwarg raises TypeError.
DeleteById(x, f, commit) ==
    /\ MayDefer(Cur, commit)
    /\ \E hit \in Hits(Cur, x), t \in Instants(Cur) :
         LET s1 == GetByIdS(Cur, x, hit, t)
             r == GetByIdOut(s1, x)
             call == [NoCall EXCEPT !.op = "delete_by_id"]
         IN IF r.exc # "none" THEN Becomes(s1, [call EXCEPT !.exc = r.exc])
            ELSE IF r.id = 0
            THEN Becomes(s1, [call EXCEPT !.exc = "AttributeError"])
            ELSE IF f # EmptyMap
            THEN Becomes(s1, [call EXCEPT !.exc = "TypeError"])
            ELSE LET s2 == Marked(s1, r.id) IN
                 \E u \in CommitInstants(s2, commit) :
                    Becomes(IfCommit(s2, commit, u), call)
    /\ UNCHANGED pc

\* AssociationModel.create_or_update(**kwargs), run without interruption.
CreateOrUpdate(f) ==
    /\ LET call == [NoCall EXCEPT !.op = "create_or_update"]
       IN IF FkKeyError(f)
          THEN Becomes(Cur, [call EXCEPT !.exc = "KeyError"])
          ELSE \E t \in Instants(Cur) :
                 LET s1 == AutoFlush(Cur, t) IN
                 \E rec \in FirstOf(s1, FkDict(f)) :
                    /\ rec = 0 => Room(s1)
                    /\ LET s2 == Upserted(s1, f, rec) IN
                       \E u \in Instants(s2) :
                         Becomes(CommitS(s2, u),
                                 [call EXCEPT !.out = UpsertOut(s1, rec)])
    /\ UNCHANGED pc

\* create_or_update by caller p up to the return of get_first ...
Lookup(p, f) ==
    /\ pc[p].st = "idle"
    /\ LET call == [NoCall EXCEPT !.op = "get_first"] IN
       IF FkKeyError(f)
       THEN /\ Becomes(Cur, [call EXCEPT !.exc = "KeyError"])
            /\ UNCHANGED pc
       ELSE \E t \in Instants(Cur) :
              LET s1 == AutoFlush(Cur, t) IN
              \E rec \in FirstOf(s1, FkDict(f)) :
                 /\ Becomes(s1, [call EXCEPT !.out = rec])
                 /\ pc' = [pc EXCEPT ![p] = [st |-> "looked", f |-> f,
                                             rec |-> rec]]

\* ... and from there: record.update(**kwargs) or cls.create(**kwargs).
Act(p) ==
    /\ pc[p].st = "looked"
    /\ pc[p].rec = 0 => Room(Cur)
    /\ LET s2 == Upserted(Cur, pc[p].f, pc[p].rec) IN
       \E u \in Instants(s2) :
         Becomes(CommitS(s2, u),
                 [NoCall EXCEPT !.op = "create_or_update",
                                !.out = UpsertOut(Cur, pc[p].rec)])
    /\ pc' = [pc EXCEPT ![p] = Idle]

(***************************************************************************)
(* The calls of each specification: small sets of kwargs and of ids.       *)
(***************************************************************************)
\* kwargs of create: the foreign keys of student 1, and one more column at most.
CrudCreateMaps ==
    { f \in CreateMaps : Cardinality(DOMAIN f) <= 3 /\ f["student_id"] = 1 }
\* kwargs of update: one column at most, not the student.
CrudUpdateMaps ==
    { f \in FieldMaps : Cardinality(DOMAIN f) <= 1 /\ "student_id" \notin DOMAIN f }
\* kwargs of create and update where timestamps are looked at.
StampCreateMaps ==
    { f \in CrudCreateMaps :
        /\ DOMAIN f \subseteq FkNames \cup {"grade"}
        /\ "grade" \in DOMAIN f => f["grade"] = "A" }
StampUpdateMaps == { f \in CrudUpdateMaps : "course_id" \notin DOMAIN f }
\* kwargs of the id-based calls: none, or a grade.
ByIdCreateMaps == { f \in StampCreateMaps : "grade" \in DOMAIN f }
ByIdMaps == { f \in StampUpdateMaps : DOMAIN f \subseteq {"grade"} /\ f \notin {[grade |-> "A"]} }
\* kwargs of create and update where commit flags are looked at.
DeferCreateMaps == StampCreateMaps
DeferUpdateMaps == { f \in CrudUpdateMaps : DOMAIN f \subseteq {"grade"} }
\* kwargs without explicit timestamps.
PlainMaps == { f \in FieldMaps : DOMAIN f \subseteq FkNames \cup {"grade"} }
\* ids naming the rows, as a number and as a string.
RowIdInputs == { IntId(n) : n \in 1..MaxId } \cup { StrId(<<"1">>) }

\* Sequential calls of the CRUD operations on one session.
Next ==
    \/ Tick
    \/ \E f \in CrudCreateMaps, c \in BOOLEAN : Create(f, c)
    \/ \E id \in DOMAIN tx, c \in BOOLEAN : Save(id, c)
    \/ \E id \in DOMAIN tx, f \in CrudUpdateMaps, c \in BOOLEAN : Update(id, f, c)
    \/ \E id \in DOMAIN tx, c \in BOOLEAN : Delete(id, c)
    \/ Commit
    \/ \E x \in RowIdInputs : GetById(x)

Spec == Init /\ [][Next]_vars

\* Sequential calls of the operations that take a commit flag, with lookups
\* by id in between.
NextDefer ==
    \/ Tick
    \/ \E f \in DeferCreateMaps, c \in BOOLEAN : Create(f, c)
    \/ \E id \in DOMAIN tx, c \in BOOLEAN : Save(id, c)
    \/ \E id \in DOMAIN tx, f \in DeferUpdateMaps, c \in BOOLEAN : Update(id, f, c)
    \/ \E id \in DOMAIN tx, c \in BOOLEAN : Delete(id, c)
    \/ Commit
    \/ \E n \in 1..MaxId : GetById(IntId(n))

SpecDefer == Init /\ [][NextDefer]_vars

\* Sequential creates and updates of every kind, where timestamps are looked at.
NextStamp ==
    \/ Tick
    \/ \E f \in StampCreateMaps, c \in BOOLEAN : Create(f, c)
    \/ \E id \in DOMAIN tx, f \in StampUpdateMaps, c \in BOOLEAN : Update(id, f, c)
    \/ Commit
    \/ \E x \in RowIdInputs, f \in StampUpdateMaps, c \in BOOLEAN : UpdateById(x, f, c)
    \/ \E f \in StampCreateMaps : CreateOrUpdate(f)

SpecStamp == Init /\ [][NextStamp]_vars

\* Sequential calls of the id-based operations, with every kind of id.
NextById ==
    \/ Tick
    \/ \E f \in ByIdCreateMaps, c \in BOOLEAN : Create(f, c)
    \/ \E x \in IdInputs : GetById(x)
    \/ \E x \in IdInputs, f \in ByIdMaps, c \in BOOLEAN : UpdateById(x, f, c)
    \/ \E x \in IdInputs, f \in ByIdMaps, c \in BOOLEAN : DeleteById(x, f, c)

SpecById == Init /\ [][NextById]_vars

\* Sequential calls of the association's create_or_update, nothing else.
NextUpsert ==
    \/ Tick
    \/ \E f \in PlainMaps : CreateOrUpdate(f)

SpecUpsert == Init /\ [][NextUpsert]_vars

\* Two callers of create_or_update, interleaved between lookup and write.
NextRace ==
    \/ Tick
    \/ \E p \in Procs, f \in PlainMaps : Lookup(p, f)
    \/ \E p \in Procs : Act(p)

SpecRace == Init /\ [][NextRace]_vars

(***************************************************************************)
(* Properties.                                                             *)
(***************************************************************************)
Session == <<db, tx, new, dirty, deleted>>
Clean == new = << >> /\ dirty = NoRows /\ deleted = {} /\ tx = db

\* Every outcome get_by_id(x) may have on the session s.
GetResults(s, x) ==
    { GetByIdOut(GetByIdS(s, x, hit, t), x) : hit \in Hits(s, x), t \in Instants(s) }

\* The records of table t that carry the foreign keys of f.
SameKey(t, f) == Matches(t, FkDict(f))

\* Row id of table t carries every field of f.
Carries(t, id, f) == id \in DOMAIN t /\ \A k \in DOMAIN f : t[id][k] = f[k]

NoDuplicateKey(t) ==
    \A i, j \in DOMAIN t : FkDict(t[i]) = FkDict(t[j]) => i = j

C10_PartialMatchProceeds ==
    [][ \A f \in PlainMaps :
          (~(FkNames \subseteq DOMAIN f) /\ CreateOrUpdate(f)) =>
            /\ last'.exc = "none"
            /\ IF SameKey(db, f) # {}
               THEN \E id \in SameKey(db, f) : Carries(db', id, f)
               ELSE \E id \in DOMAIN db' \ DOMAIN db : Carries(db', id, f)
      ]_vars

\* C10 as amended: a create_or_update whose kwargs omit a foreign key raises
\* KeyError before any lookup, and reads, creates and updates nothing.
C10_MissingKeyRaises ==
    [][ \A f \in PlainMaps :
          (~(FkNames \subseteq DOMAIN f) /\ CreateOrUpdate(f)) =>
            /\ last'.exc = "KeyError"
            /\ last'.out = 0
            /\ UNCHANGED <<Session, now>>
      ]_vars

\* A create_or_update has just raised KeyError on a table that holds a record.
C10_Witness ==
    /\ last.op = "create_or_update"
    /\ last.exc = "KeyError"
    /\ DOMAIN db # {}

\* C2: the write of a caller whose lookup found no record adds a record of
\* its foreign-key combination however many records of that combination the
\* table holds by then, so two callers that both found none leave two.
C2_StaleLookupStillCreates ==
    [][ \A p \in Procs :
          (Act(p) /\ pc[p].rec = 0) =>
            /\ Cardinality(SameKey(db', pc[p].f))
                 = Cardinality(SameKey(db, pc[p].f)) + 1
            /\ \A id \in DOMAIN db : db'[id] = db[id]
      ]_vars

\* Two records of one foreign-key combination, left by create_or_update.
C2_Witness ==
    /\ last.op = "create_or_update"
    /\ \E i, j \in DOMAIN db : i # j /\ FkDict(db[i]) = FkDict(db[j])
    /\ \A p \in Procs : pc[p].st = "idle"

\* The ids the claims tell apart: negative numbers, values that are no number,
\* and positive integers written as a number or as a decimal string.
NegativeId(x) == (x.k \in {"int", "float"} /\ x.n < 0) \/ x.k = "ninf"
NonNumericId(x) ==
    \/ x.k \in {"none", "list", "nan"}
    \/ x.k = "str" /\ (x.s = << >> \/ \E i \in 1..Len(x.s) : x.s[i] \notin DecimalChars)
PositiveIntegerId(x) ==
    \/ x.k = "int" /\ x.n > 0
    \/ x.k = "str" /\ x.s # << >> /\ (\A i \in 1..Len(x.s) : x.s[i] \in DecimalChars)
         /\ DecVal(x.s) > 0
IntegerOf(x) == IF x.k = "int" THEN x.n ELSE DecVal(x.s)

\* C3: get_by_id(id) returns None without raising when id is negative, no
\* number, or a positive integer naming no record; it returns a record only
\* when id is a positive integer (number or decimal string) naming a record,
\* and then that record.
C3_GetByIdSoftFails ==
    [][ \A x \in IdInputs :
          GetById(x) =>
            /\ last'.exc = "none"
            /\ (NegativeId(x) \/ NonNumericId(x)) => last'.out = 0
            /\ (PositiveIntegerId(x) /\ IntegerOf(x) \notin DOMAIN tx') => last'.out = 0
            /\ last'.out # 0 =>
                 /\ PositiveIntegerId(x)
                 /\ last'.out = IntegerOf(x)
                 /\ last'.out \in DOMAIN tx'
      ]_vars

\* get_by_id gives None on session s for x: it raises nothing and finds nothing.
GivesNone(s, x) == \A r \in GetResults(s, x) : r.exc = "none" /\ r.id = 0
\* get_by_id gives the record id on session s for x.
Gives(s, x, id) == \A r \in GetResults(s, x) : r.exc = "none" /\ r.id = id

\* C8: update_by_id and delete_by_id with an id for which get_by_id gives None
\* fail with NotFoundError and leave session and records as they were; with
\* the id of a record they do what update and delete do on that record.
C8_ByIdFailsCleanlyOrActs ==
    [][ \A x \in IdInputs, f \in ByIdMaps, c \in BOOLEAN :
          /\ ((UpdateById(x, f, c) \/ DeleteById(x, f, c)) /\ GivesNone(Cur, x)) =>
                /\ last'.exc = "NotFoundError"
                /\ UNCHANGED Session
          /\ \A id \in DOMAIN tx :
               /\ (UpdateById(x, f, c) /\ Gives(Cur, x, id)) =>
                    /\ last'.exc = "none"
                    /\ \E t \in CommitInstants(Updated(Cur, id, f, c), c) :
                         LET s == IfCommit(Updated(Cur, id, f, c), c, t) IN
                         db' = s.db /\ Instance(Cur', id) = Instance(s, id)
               /\ (DeleteById(x, f, c) /\ Gives(Cur, x, id)) =>
                    /\ last'.exc = "none"
                    /\ IF c THEN id \notin DOMAIN db' ELSE id \in deleted' /\ db' = db
      ]_vars

\* Row a agrees with row b on every column but updated_at.
SamePayload(a, b) == \A k \in Cols \ {"updated_at"} : a[k] = b[k]

\* The ids (number or decimal string) that name record id.
Naming(id) == { x \in RowIdInputs : IdKey(x).key = id }

\* C4: create(fields, commit=True) returns an instance whose id the storage
\* assigned to a new durable row carrying every supplied field, and get_by_id
\* of that id gives it; as long as no update or delete of the record
\* intervenes the record stays, its fields as they were, and get_by_id keeps
\* giving it.
C4_CreateThenGetById ==
    [][ /\ \A f \in CrudCreateMaps :
             (last'.op = "create" /\ Create(f, TRUE)) =>
               /\ last'.out \in DOMAIN db' \ DOMAIN tx
               /\ Carries(db', last'.out, f)
               /\ Naming(last'.out) # {}
               /\ \A x \in Naming(last'.out) : Gives(Cur', x, last'.out)
        /\ \A id \in DOMAIN tx \ deleted :
             ( /\ ~ (last'.op = "update" /\ last'.out = id)
               /\ ~ (last'.op = "delete" /\ \E c \in BOOLEAN : Delete(id, c)) ) =>
               /\ id \in DOMAIN tx'
               /\ SamePayload(Instance(Cur', id), Instance(Cur, id))
               /\ \A x \in Naming(id) :
                    (last'.op = "get_by_id" /\ GetById(x)) =>
                       last'.exc = "none" /\ last'.out = id
      ]_vars

\* A committed create has just returned record 2, carrying the grade and the
\* created_at its caller supplied.
C4_Witness ==
    /\ last.op = "create"
    /\ last.out = 2
    /\ Clean
    /\ 2 \in DOMAIN db
    /\ db[2]["grade"] = "B"
    /\ db[1]["created_at"] = 0
    /\ db[1]["updated_at"] > 0

\* C5: delete(commit=True) of a persisted record removes it durably, and
\* get_by_id of its id gives None; the records of other ids stay with their
\* fields; an id that names no record names none until a record is created.
C5_DeleteThenGetById ==
    [][ /\ \A id \in DOMAIN tx :
             (last'.op = "delete" /\ Delete(id, TRUE)) =>
               /\ id \notin DOMAIN db'
               /\ \A x \in Naming(id) : GivesNone(Cur', x)
               /\ \A j \in DOMAIN tx \ ({id} \cup deleted) :
                    /\ j \in DOMAIN db'
                    /\ SamePayload(db'[j], Instance(Cur, j))
        /\ \A id \in 1..MaxId :
             (id \notin DOMAIN tx /\ new = << >> /\ last'.op # "create") =>
               /\ id \notin DOMAIN tx'
               /\ \A x \in Naming(id) :
                    (last'.op = "get_by_id" /\ GetById(x)) =>
                       last'.exc = "none" /\ last'.out = 0
      ]_vars

\* A committed delete has just removed record 1 and left record 2.
C5_Witness ==
    /\ last.op = "delete"
    /\ Clean
    /\ DOMAIN db = {2}

\* The step is an operation that commits.
Committing ==
    CASE last'.op = "commit" -> Commit
      [] last'.op = "create" -> \E f \in DeferCreateMaps : Create(f, TRUE)
      [] last'.op = "save"   -> last'.out \in DOMAIN tx /\ Save(last'.out, TRUE)
      [] last'.op = "delete" -> \E id \in DOMAIN tx : Delete(id, TRUE)
      [] last'.op = "update" ->
           /\ last'.out \in DOMAIN tx
           /\ \E f \in DeferUpdateMaps : Update(last'.out, f, TRUE)
      [] OTHER -> FALSE

Stamps == {"created_at", "updated_at"}
\* The assignments pending on record id.
PendingOn(id) == IF id \in DOMAIN dirty THEN dirty[id] ELSE EmptyMap
\* The step is an update of record id with the fields f, by update or by
\* update_by_id, under the commit flag c (what is cheap to tell comes first).
UpdateOf(id, f, c) ==
    /\ last'.op \in {"update", "update_by_id"}
    /\ last'.exc = "none"
    /\ c => (new' = << >> /\ dirty' = NoRows /\ db' = tx')
    /\ \/ last'.op = "update" /\ last'.out = id /\ Update(id, f, c)
       \/ last'.op = "update_by_id" /\ \E x \in Naming(id) : UpdateById(x, f, c)
\* The step is a create_or_update with the fields f that found record id.
UpsertOf(id, f) ==
    last'.op = "create_or_update" /\ last'.out = id /\ CreateOrUpdate(f)

\* C6 as claimed: no update, update_by_id or create_or_update changes the
\* created_at of a record, whatever fields it supplies and whatever its
\* commit flag.
C6_CreatedAtNeverChanges ==
    [][ last'.op \in {"update", "update_by_id", "create_or_update"} =>
          \A id \in DOMAIN tx :
            /\ id \in DOMAIN tx'
            /\ Instance(Cur', id)["created_at"] = Instance(Cur, id)["created_at"]
      ]_vars

\* C6 as amended: the created_at of a record stays as the creation set it
\* through every step but an update or update_by_id that supplies created_at:
\* through updates of other fields under either commit flag, the update branch
\* of create_or_update, creates, commits and the passing of time.
C6_CreatedAtKeptUnlessSupplied ==
    [][ \A id \in DOMAIN tx :
          \/ /\ id \in DOMAIN tx'
             /\ Instance(Cur', id)["created_at"] = Instance(Cur, id)["created_at"]
          \/ \E f \in StampUpdateMaps, c \in BOOLEAN :
               "created_at" \in DOMAIN f /\ UpdateOf(id, f, c)
      ]_vars

\* An update_by_id has just changed the grade of record 1 an instant after its
\* creation.
C6_Witness ==
    /\ last.op = "update_by_id"
    /\ last.exc = "none"
    /\ Clean
    /\ 1 \in DOMAIN db
    /\ db[1]["grade"] = "B"
    /\ db[1]["created_at"] = 1
    /\ db[1]["updated_at"] = 2

\* C7 as claimed: right after a committed create updated_at equals created_at,
\* and every committed update leaves updated_at at the current instant, no
\* earlier than it was and no earlier than created_at.
C7_UpdatedAtResetOnEveryUpdate ==
    [][ /\ last'.op = "create" =>
             \A f \in StampCreateMaps :
               Create(f, TRUE) =>
                 db'[last'.out]["updated_at"] = db'[last'.out]["created_at"]
        /\ \A id \in DOMAIN tx :
             ( \/ \E f \in StampUpdateMaps : UpdateOf(id, f, TRUE)
               \/ \E f \in StampCreateMaps : UpsertOf(id, f) ) =>
               /\ db'[id]["updated_at"] = now'
               /\ db'[id]["updated_at"] >= tx[id]["updated_at"]
               /\ db'[id]["updated_at"] >= db'[id]["created_at"]
      ]_vars

\* Record id carries timestamps the clock set, and no assignment of a
\* timestamp is pending on it.
ClockSet(id) ==
    /\ tx[id]["created_at"] >= 1
    /\ tx[id]["updated_at"] >= 1
    /\ DOMAIN PendingOn(id) \cap Stamps = {}

\* C7 as amended, for records whose timestamps no caller supplies: a committed
\* create reads the clock once for created_at and again for updated_at, so
\* created_at <= updated_at, both within the call; a committed update that
\* changes the value of a column leaves updated_at at the current instant; any
\* committed update leaves updated_at no earlier than it was and no earlier
\* than created_at.
C7_UpdatedAtResetOnChange ==
    [][ /\ last'.op = "create" =>
             \A f \in StampCreateMaps :
               Create(f, TRUE) =>
                 /\ now <= db'[last'.out]["created_at"]
                 /\ db'[last'.out]["created_at"] <= db'[last'.out]["updated_at"]
                 /\ db'[last'.out]["updated_at"] = now'
        /\ \A id \in DOMAIN tx :
             ClockSet(id) =>
               \A f \in StampUpdateMaps \cup StampCreateMaps :
                 ( /\ DOMAIN f \cap Stamps = {}
                   /\ UpdateOf(id, f, TRUE) \/ UpsertOf(id, f) ) =>
                   /\ id \in DOMAIN db'
                   /\ Override(tx[id], Override(PendingOn(id), f)) # tx[id]
                        => db'[id]["updated_at"] = now'
                   /\ db'[id]["updated_at"] >= tx[id]["updated_at"]
                   /\ db'[id]["updated_at"] >= db'[id]["created_at"]
      ]_vars

\* A committed update has just changed the grade of record 1 an instant after
\* its creation and left updated_at at that instant.
C7_Witness ==
    /\ last.op = "update"
    /\ Clean
    /\ now = 2
    /\ 1 \in DOMAIN db
    /\ db[1]["grade"] = "B"
    /\ db[1]["created_at"] = 1
    /\ db[1]["updated_at"] = 2

============================================================================
